---- MODULE Spec2Model ----
(***************************************************************************)
(* A model of comment_templates (mod.ts): commentTemplate, its marker      *)
(* regular expressions, the pipe tokenizer createPiper and the pipe        *)
(* registry.  Strings are sequences of one-character strings; offsets are  *)
(* the 0-based offsets of the JavaScript code.                             *)
(***************************************************************************)
EXTENDS Integers, Sequences, FiniteSets, TLC

\* ------------------------------------------------------------------------
\* Character classes of the regular expressions
\* ------------------------------------------------------------------------

Lower == {"a","b","c","d","e","f","g","h","i","j","k","l","m",
          "n","o","p","q","r","s","t","u","v","w","x","y","z"}

Upper == {"A","B","C","D","E","F","G","H","I","J","K","L","M",
          "N","O","P","Q","R","S","T","U","V","W","X","Y","Z"}

Digit == {"0","1","2","3","4","5","6","7","8","9"}

\* the blank alone
Space_OnlyBlank == {" "}

\* \s
Space == {" ", "\n", "\t", "\r"}

\* [a-z_A-Z$]
NameStart == Lower \cup Upper \cup {"_", "$"}

\* [a-z_A-Z0-9$\.]
NameChar == NameStart \cup Digit \cup {"."}

\* [a-z_A-Z0-9$]
IdentChar == Lower \cup Upper \cup Digit \cup {"_", "$"}

\* [0-9_\.]
NumChar == Digit \cup {"_", "."}

\* the backtick character U+0060, which a TLA+ string literal cannot hold:
\* one atom that belongs to no character class
Tick == "backtick"

\* ------------------------------------------------------------------------
\* String helpers (JavaScript String methods on character sequences)
\* ------------------------------------------------------------------------

\* s.slice(from, to) with 0-based offsets 0 <= from, to
Slice(s, from, to) ==
    LET t == IF to > Len(s) THEN Len(s) ELSE to
    IN  IF from >= t THEN << >> ELSE SubSeq(s, from + 1, t)

\* s.slice(from)
SliceFrom(s, from) == Slice(s, from, Len(s))

\* s.slice(0, n) for a possibly negative n (a negative n counts from the end)
SliceTo(s, n) ==
    IF n >= 0 THEN Slice(s, 0, n)
    ELSE IF Len(s) + n <= 0 THEN << >> ELSE Slice(s, 0, Len(s) + n)

\* does the literal lit stand in s at 1-based position i
LitAt(s, i, lit) ==
    /\ i >= 1
    /\ i + Len(lit) - 1 <= Len(s)
    /\ SubSeq(s, i, i + Len(lit) - 1) = lit

RECURSIVE RunEnd(_, _, _)
\* the first 1-based position j >= i whose character is outside class
\* (Len(s) + 1 when the run reaches the end): a greedy [class]* from i
RunEnd(s, i, class) ==
    IF i > Len(s) \/ s[i] \notin class THEN i ELSE RunEnd(s, i + 1, class)

RECURSIVE IndexFrom(_, _, _)
\* s.indexOf(c, from) as a 0-based offset, -1 when absent
IndexFrom(s, c, from) ==
    IF from >= Len(s) THEN -1
    ELSE IF s[from + 1] = c THEN from
    ELSE IndexFrom(s, c, from + 1)

\* s.search(/[^class]/): 0-based offset of the first character outside class
SearchNot(s, class) ==
    LET j == RunEnd(s, 1, class)
    IN  IF j > Len(s) THEN -1 ELSE j - 1

RECURSIVE Concat(_)
\* the concatenation of a sequence of strings
Concat(ss) == IF ss = << >> THEN << >> ELSE Head(ss) \o Concat(Tail(ss))

RECURSIVE ReverseSeq(_)
\* [...xs].reverse()
ReverseSeq(xs) ==
    IF xs = << >> THEN << >> ELSE ReverseSeq(Tail(xs)) \o << Head(xs) >>

\* ------------------------------------------------------------------------
\* The marker grammar: XML_COMMENT_VARIABLE and SLASH_COMMENT_VARIABLE
\* ------------------------------------------------------------------------

\* the literal that begins a comment of each style
OpenDelim(style) ==
    IF style = "xml" THEN <<"<", "!", "-", "-">> ELSE <<"/", "*">>

\* the literal that ends a comment of each style: --> for xml; the slash
\* pattern ends its tags with \*\\ , a star followed by a backslash
EndDelim(style) ==
    IF style = "xml" THEN <<"-", "-", ">">> ELSE <<"*", "\\">>

\* one argument literal null|true|false|[0-9_\.]+|"[^"]*" at position i:
\* the position after it, or 0 when none stands there
ArgEnd(s, i) ==
    IF LitAt(s, i, <<"n","u","l","l">>) THEN i + 4
    ELSE IF LitAt(s, i, <<"t","r","u","e">>) THEN i + 4
    ELSE IF LitAt(s, i, <<"f","a","l","s","e">>) THEN i + 5
    ELSE IF i <= Len(s) /\ s[i] \in NumChar THEN RunEnd(s, i, NumChar)
    ELSE IF i <= Len(s) /\ s[i] = "\""
         THEN LET q == IndexFrom(s, "\"", i)
              IN  IF q = -1 THEN 0 ELSE q + 2
    ELSE 0

RECURSIVE ArgsEnd(_, _)
\* (?:null|true|false|[0-9_\.]+|"[^"]*")* from i: position after the run
ArgsEnd(s, i) ==
    LET e == ArgEnd(s, i) IN IF e = 0 THEN i ELSE ArgsEnd(s, e)

RECURSIVE PipesEnd(_, _, _)
\* the <pipes> group from position i: the position after the last pipe item
\* that the style's grammar accepts.  xml: \|ident+ : arg* ; slash:
\* \|ident+ : arg (exactly one argument literal)
PipesEnd(style, s, i) ==
    IF ~ LitAt(s, i, <<"|">>) THEN i
    ELSE LET n == RunEnd(s, i + 1, IdentChar)
         IN  IF n = i + 1 \/ ~ LitAt(s, n, <<":">>) THEN i
             ELSE IF style = "xml" THEN PipesEnd(style, s, ArgsEnd(s, n + 1))
             ELSE LET e == ArgEnd(s, n + 1)
                  IN  IF e = 0 THEN i ELSE PipesEnd(style, s, e)

NoMatch == [ok |-> FALSE]

\* the <open> group at 1-based position i
MatchOpen(style, s, i) ==
    IF ~ LitAt(s, i, OpenDelim(style)) THEN NoMatch
    ELSE
    LET j1 == RunEnd(s, i + Len(OpenDelim(style)), Space)
    IN  IF ~ LitAt(s, j1, <<"=", "{">>) THEN NoMatch
        ELSE IF j1 + 2 > Len(s) \/ s[j1 + 2] \notin NameStart THEN NoMatch
        ELSE
        LET nEnd == RunEnd(s, j1 + 3, NameChar)
            pEnd == PipesEnd(style, s, nEnd)
        IN  IF ~ LitAt(s, pEnd, <<"}">>) THEN NoMatch
            ELSE
            LET j2 == RunEnd(s, pEnd + 1, Space)
            IN  IF ~ LitAt(s, j2, EndDelim(style)) THEN NoMatch
                ELSE [ok    |-> TRUE,
                      name  |-> SubSeq(s, j1 + 2, nEnd - 1),
                      pipes |-> SubSeq(s, nEnd, pEnd - 1),
                      next  |-> j2 + Len(EndDelim(style))]

\* a close tag of any name is accepted: no back-reference
CloseEnd_AnyName(style, s, q, name) ==
    IF ~ LitAt(s, q, OpenDelim(style)) THEN 0
    ELSE
    LET j1 == RunEnd(s, q + Len(OpenDelim(style)), Space)
    IN  IF ~ LitAt(s, j1, <<"{", "/">>) THEN 0
        ELSE
        LET nEnd == RunEnd(s, j1 + 2, NameChar)
        IN  IF nEnd = j1 + 2 \/ ~ LitAt(s, nEnd, <<"}">>) THEN 0
            ELSE
            LET j2 == RunEnd(s, nEnd + 1, Space)
            IN  IF ~ LitAt(s, j2, EndDelim(style)) THEN 0
                ELSE j2 + Len(EndDelim(style))

\* the <close> group at 1-based position q for the back-referenced name:
\* the position after it, or 0
CloseEnd(style, s, q, name) ==
    IF ~ LitAt(s, q, OpenDelim(style)) THEN 0
    ELSE
    LET j1 == RunEnd(s, q + Len(OpenDelim(style)), Space)
    IN  IF ~ LitAt(s, j1, <<"{", "/">> \o name \o <<"}">>) THEN 0
        ELSE
        LET j2 == RunEnd(s, j1 + 3 + Len(name), Space)
        IN  IF ~ LitAt(s, j2, EndDelim(style)) THEN 0
            ELSE j2 + Len(EndDelim(style))

\* the least and the greatest of a nonempty set of positions
Least(S) == CHOOSE x \in S : \A y \in S : x <= y

Greatest(S) == CHOOSE x \in S : \A y \in S : x >= y

\* (?<value>.*)(?<close>...) with the s flag: .* is greedy, so the close tag
\* is the last one at a position from lo to q (0 when there is none)
LastClose(style, s, q, lo, name) ==
    LET closes == { p \in lo..q : CloseEnd(style, s, p, name) # 0 }
    IN  IF closes = {} THEN 0 ELSE Greatest(closes)

\* one match of the pattern starting exactly at 1-based position i
MatchAt(style, s, i) ==
    LET o == MatchOpen(style, s, i)
    IN  IF ~ o.ok THEN NoMatch
        ELSE
        LET q == LastClose(style, s, Len(s), o.next, o.name)
        IN  IF q = 0 THEN NoMatch
            ELSE LET e == CloseEnd(style, s, q, o.name)
                 IN  [ok    |-> TRUE,
                      index |-> i - 1,
                      full  |-> SubSeq(s, i, e - 1),
                      open  |-> SubSeq(s, i, o.next - 1),
                      name  |-> o.name,
                      pipes |-> o.pipes,
                      value |-> SubSeq(s, o.next, q - 1),
                      close |-> SubSeq(s, q, e - 1)]

RECURSIVE MatchAllFrom(_, _, _)
\* the matches of the global pattern from 1-based position i on, left to
\* right, each search resuming at the end of the previous match
MatchAllFrom(style, s, i) ==
    LET starts == { j \in i..Len(s) : MatchAt(style, s, j).ok }
    IN  IF starts = {} THEN << >>
        ELSE LET m == MatchAt(style, s, Least(starts))
             IN  << m >> \o MatchAllFrom(style, s, Least(starts) + Len(m.full))

\* [...transformed.matchAll(PATTERNS[style])]
MatchAll(style, s) == MatchAllFrom(style, s, 1)

\* ------------------------------------------------------------------------
\* The snippet grammar: XML_COMMENT_SNIPPET
\* ------------------------------------------------------------------------

\* the <open> group of a snippet at 1-based position i: <!--\s*@\{name\}\s*-->
SnippetOpen(s, i) ==
    IF ~ LitAt(s, i, OpenDelim("xml")) THEN NoMatch
    ELSE
    LET j1 == RunEnd(s, i + Len(OpenDelim("xml")), Space)
    IN  IF ~ LitAt(s, j1, <<"@", "{">>) THEN NoMatch
        ELSE IF j1 + 2 > Len(s) \/ s[j1 + 2] \notin NameStart THEN NoMatch
        ELSE
        LET nEnd == RunEnd(s, j1 + 3, NameChar)
        IN  IF ~ LitAt(s, nEnd, <<"}">>) THEN NoMatch
            ELSE
            LET j2 == RunEnd(s, nEnd + 1, Space)
            IN  IF ~ LitAt(s, j2, EndDelim("xml")) THEN NoMatch
                ELSE [ok    |-> TRUE,
                      name  |-> SubSeq(s, j1 + 2, nEnd - 1),
                      next  |-> j2 + Len(EndDelim("xml"))]

\* one match of XML_COMMENT_SNIPPET starting exactly at 1-based position i;
\* its close tag is the close tag of the xml marker pattern and its value
\* group is the same greedy .* with the s flag
SnippetAt(s, i) ==
    LET o == SnippetOpen(s, i)
    IN  IF ~ o.ok THEN NoMatch
        ELSE
        LET q == LastClose("xml", s, Len(s), o.next, o.name)
        IN  IF q = 0 THEN NoMatch
            ELSE LET e == CloseEnd("xml", s, q, o.name)
                 IN  [ok    |-> TRUE,
                      index |-> i - 1,
                      full  |-> SubSeq(s, i, e - 1),
                      open  |-> SubSeq(s, i, o.next - 1),
                      name  |-> o.name,
                      value |-> SubSeq(s, o.next, q - 1),
                      close |-> SubSeq(s, q, e - 1)]

RECURSIVE SnippetAllFrom(_, _)
\* the matches of XML_COMMENT_SNIPPET from 1-based position i on, each search
\* resuming at the end of the previous match
SnippetAllFrom(s, i) ==
    LET starts == { j \in i..Len(s) : SnippetAt(s, j).ok }
    IN  IF starts = {} THEN << >>
        ELSE LET m == SnippetAt(s, Least(starts))
             IN  << m >> \o SnippetAllFrom(s, Least(starts) + Len(m.full))

\* the pattern without its g flag: the first match only
SnippetAll_First(s) ==
    IF SnippetAllFrom(s, 1) = << >> THEN << >>
    ELSE << Head(SnippetAllFrom(s, 1)) >>

\* [...content.matchAll(XML_COMMENT_SNIPPET)]
SnippetAll(s) == SnippetAllFrom(s, 1)

\* ------------------------------------------------------------------------
\* Pipe arguments and the pipe registry
\* ------------------------------------------------------------------------

\* an argument token's value: t is its JavaScript type and s the text that
\* String(value) yields (for a string, the string itself)
ArgNull == [t |-> "null", s |-> <<"n","u","l","l">>]
ArgTrue == [t |-> "boolean", s |-> <<"t","r","u","e">>]
ArgFalse == [t |-> "boolean", s |-> <<"f","a","l","s","e">>]
ArgString(v) == [t |-> "string", s |-> v]

NaN == <<"N","a","N">>

RECURSIVE StripZerosLeft(_)
StripZerosLeft(ds) ==
    IF Len(ds) > 1 /\ Head(ds) = "0" THEN StripZerosLeft(Tail(ds)) ELSE ds

RECURSIVE StripZerosRight(_)
StripZerosRight(ds) ==
    IF ds # << >> /\ ds[Len(ds)] = "0"
    THEN StripZerosRight(SubSeq(ds, 1, Len(ds) - 1)) ELSE ds

\* String(Number(txt)) for a text over [0-9_.] : the empty text is 0, a
\* text with an underscore or a second dot is NaN
NumberStr(txt) ==
    IF txt = << >> THEN <<"0">>
    ELSE IF \E i \in 1..Len(txt) : txt[i] = "_" THEN NaN
    ELSE LET d == IndexFrom(txt, ".", 0)
         IN  IF d = -1 THEN StripZerosLeft(txt)
             ELSE LET ip == Slice(txt, 0, d)
                      fp == SliceFrom(txt, d + 1)
                  IN  IF IndexFrom(fp, ".", 0) # -1 THEN NaN
                      ELSE IF ip = << >> /\ fp = << >> THEN NaN
                      ELSE LET i2 == IF ip = << >> THEN <<"0">>
                                     ELSE StripZerosLeft(ip)
                               f2 == StripZerosRight(fp)
                           IN  IF f2 = << >> THEN i2
                               ELSE i2 \o <<".">> \o f2

ArgNumber(txt) == [t |-> "number", s |-> NumberStr(txt)]

\* the primitives table, in the order Object.entries yields it
primitives == << [name |-> <<"n","u","l","l">>, value |-> ArgNull],
                 [name |-> <<"t","r","u","e">>, value |-> ArgTrue],
                 [name |-> <<"f","a","l","s","e">>, value |-> ArgFalse] >>

\* JavaScript truthiness of an argument value
Truthy(a) ==
    IF a.t = "null" THEN FALSE
    ELSE IF a.t = "boolean" THEN a = ArgTrue
    ELSE IF a.t = "number" THEN a.s \notin {<<"0">>, NaN}
    ELSE a.s # << >>

\* Object.keys(pipes)
PipeNames ==
    { <<"t","r","i","m">>,
      <<"t","r","i","m","S","t","a","r","t">>,
      <<"t","r","i","m","E","n","d">>,
      <<"s","t","r","i","n","g">>,
      <<"p","r","e","f","i","x">>,
      <<"s","u","f","f","i","x">>,
      <<"c","o","d","e","b","l","o","c","k">>,
      <<"i","n","d","e","n","t">>,
      <<"c","o","d","e">>,
      <<"r","e","p","l","a","c","e">> }

isPipeName(value) == value \in PipeNames

RECURSIVE TrimStart(_)
TrimStart(v) == IF v # << >> /\ Head(v) \in Space THEN TrimStart(Tail(v)) ELSE v

RECURSIVE TrimEnd(_)
TrimEnd(v) ==
    IF v # << >> /\ v[Len(v)] \in Space
    THEN TrimEnd(SubSeq(v, 1, Len(v) - 1)) ELSE v

Trim(v) == TrimEnd(TrimStart(v))

RECURSIVE Split(_, _)
\* v.split(c) for a one-character separator c
Split(v, c) ==
    LET k == IndexFrom(v, c, 0)
    IN  IF k = -1 THEN << v >>
        ELSE << Slice(v, 0, k) >> \o Split(SliceFrom(v, k + 1), c)

RECURSIVE Join(_, _)
\* parts.join(c)
Join(parts, c) ==
    IF Len(parts) = 1 THEN parts[1]
    ELSE parts[1] \o c \o Join(Tail(parts), c)

RECURSIVE ExpandRepl(_, _, _, _)
\* the replacement text of String.prototype.replaceAll for one match: the
\* patterns $$, $&, $-backtick and $-quote are expanded, every other character is literal
ExpandRepl(r, matched, before, after) ==
    IF r = << >> THEN << >>
    ELSE IF Len(r) >= 2 /\ r[1] = "$" /\ r[2] \in {"$", "&", Tick, "'"}
         THEN (CASE r[2] = "$" -> <<"$">>
                 [] r[2] = "&" -> matched
                 [] r[2] = Tick -> before
                 [] r[2] = "'" -> after)
              \o ExpandRepl(SubSeq(r, 3, Len(r)), matched, before, after)
         ELSE << r[1] >> \o ExpandRepl(Tail(r), matched, before, after)

RECURSIVE ReplaceFrom(_, _, _, _)
\* v.replaceAll(search, r) from 0-based offset k on
ReplaceFrom(v, search, r, k) ==
    IF search = << >>
    THEN ExpandRepl(r, << >>, Slice(v, 0, k), SliceFrom(v, k))
         \o (IF k >= Len(v) THEN << >>
             ELSE << v[k + 1] >> \o ReplaceFrom(v, search, r, k + 1))
    ELSE IF k >= Len(v) THEN << >>
    ELSE IF LitAt(v, k + 1, search)
         THEN ExpandRepl(r, search, Slice(v, 0, k),
                         SliceFrom(v, k + Len(search)))
              \o ReplaceFrom(v, search, r, k + Len(search))
         ELSE << v[k + 1] >> \o ReplaceFrom(v, search, r, k + 1)

ReplaceAll(v, search, r) == ReplaceFrom(v, search, r, 0)

\* does the factory pipes[name](...args) throw a TypeError: replace calls
\* value.split on its first argument, which a default only replaces when
\* the argument is undefined
FactoryThrows(name, args) ==
    name = <<"r","e","p","l","a","c","e">> /\ args # << >>
        /\ args[1].t # "string"

\* the template text ${arg} of the first argument, or the default "" when there is none
FirstText(args) == IF args = << >> THEN << >> ELSE args[1].s

\* pipes[name](...args)(value)
ApplyPipe(name, args, value) ==
    CASE name = <<"t","r","i","m">> -> Trim(value)
      [] name = <<"t","r","i","m","S","t","a","r","t">> -> TrimStart(value)
      [] name = <<"t","r","i","m","E","n","d">> -> TrimEnd(value)
      [] name = <<"s","t","r","i","n","g">> ->
            LET q == IF args # << >> /\ Truthy(args[1]) THEN "'" ELSE "\""
            IN  << q >> \o value \o << q >>
      [] name = <<"p","r","e","f","i","x">> -> FirstText(args) \o value
      [] name = <<"s","u","f","f","i","x">> -> value \o FirstText(args)
      [] name = <<"c","o","d","e","b","l","o","c","k">> ->
            <<Tick, Tick, Tick>> \o FirstText(args) \o <<"\n">> \o value
                \o <<"\n", Tick, Tick, Tick>>
      [] name = <<"i","n","d","e","n","t">> ->
            LET lines == Split(value, "\n")
            IN  Join([k \in 1..Len(lines) |-> FirstText(args) \o lines[k]],
                     <<"\n">>)
      [] name = <<"c","o","d","e">> -> <<Tick>> \o value \o <<Tick>>
      [] name = <<"r","e","p","l","a","c","e">> ->
            LET parts == Split(FirstText(args), ",")
                search == parts[1]
                repl == IF Len(parts) >= 2 THEN parts[2] ELSE << >>
            IN  ReplaceAll(value, search, repl)

RECURSIVE combine_Reversed(_, _)
\* the pipers applied last to first
combine_Reversed(fns, value) ==
    IF fns = << >> THEN value
    ELSE ApplyPipe(Head(fns).name, Head(fns).args,
                   combine_Reversed(Tail(fns), value))

RECURSIVE combine(_, _)
\* combine(...pipes)(value): every piper is applied in list order; the
\* leading identity of createPiper is the empty list here
combine(fns, value) ==
    IF fns = << >> THEN value
    ELSE combine(Tail(fns), ApplyPipe(Head(fns).name, Head(fns).args, value))

\* ------------------------------------------------------------------------
\* createPiper, second half: from the token list to the list of pipers
\* ------------------------------------------------------------------------

PipeToken(name) == [type |-> "pipe", name |-> name, value |-> ArgNull]
ArgToken(value) == [type |-> "arg", name |-> << >>, value |-> value]

RECURSIVE BuildFns(_, _, _, _)
\* the loop over tokens: args collects argument tokens, fn is << >> or
\* << name >> of the pipe waiting for its arguments, fns the pipers so far.
\* The result is the error thrown ("none" if none) and the pipers.
BuildFns(toks, args, fn, fns) ==
    IF toks = << >>
    THEN IF fn = << >> THEN [error |-> "none", fns |-> fns]
         ELSE IF FactoryThrows(fn[1], args)
              THEN [error |-> "TypeError", fns |-> fns]
              ELSE [error |-> "none",
                    fns |-> Append(fns, [name |-> fn[1], args |-> args])]
    ELSE LET token == Head(toks)
         IN  IF token.type = "arg"
             THEN BuildFns(Tail(toks), Append(args, token.value), fn, fns)
             ELSE IF fn # << >> /\ FactoryThrows(fn[1], args)
                  THEN [error |-> "TypeError", fns |-> fns]
             ELSE IF ~ isPipeName(token.name)
                  THEN [error |-> "InvalidPipeName", fns |-> fns]
             ELSE IF fn # << >>
                  THEN BuildFns(Tail(toks), << >>, << token.name >>,
                                Append(fns, [name |-> fn[1], args |-> args]))
                  ELSE BuildFns(Tail(toks), args, << token.name >>, fns)

\* ------------------------------------------------------------------------
\* Bounded inputs: documents, variables and options
\* ------------------------------------------------------------------------

\* the most units a structural document is made of
MaxUnits == 3

\* the most pipe segments in the pipe expression of a pipe document
MaxPipes == 2

\* the most tokens the tokenizer may hold (caps a scan that does not end)
MaxTokens == 6

NameA == <<"a">>
NameB == <<"b">>

\* <!-- ={name}{pipes} -->
XmlOpen(name, pipeExpr) ==
    <<"<","!","-","-"," ","=","{">> \o name \o pipeExpr
        \o <<"}"," ","-","-",">">>

\* <!-- {/name} -->
XmlClose(name) ==
    <<"<","!","-","-"," ","{","/">> \o name \o <<"}"," ","-","-",">">>

\* a tag between slash-star and the closing delimiter endDelim
BlockOpen(name, pipeExpr, endDelim) ==
    <<"/","*"," ","=","{">> \o name \o pipeExpr \o <<"}"," ">> \o endDelim

BlockClose(name, endDelim) ==
    <<"/","*"," ","{","/">> \o name \o <<"}"," ">> \o endDelim

StarSlash == <<"*", "/">>
StarBackslash == <<"*", "\\">>

XmlPair(name, pipeExpr, old) ==
    XmlOpen(name, pipeExpr) \o old \o XmlClose(name)

BlockPair(name, pipeExpr, old, endDelim) ==
    BlockOpen(name, pipeExpr, endDelim) \o old \o BlockClose(name, endDelim)

Old == <<"o", "l", "d">>

\* the units structural documents are concatenated from: plain text, whole
\* pairs of both styles and stray tags (an open tag of b followed by a close
\* tag of b is a pair of b, with whatever stands between them wrapped)
Units ==
    { <<"t">>,
      XmlPair(NameA, << >>, Old),
      BlockPair(NameA, << >>, Old, StarBackslash),
      XmlOpen(NameB, << >>),
      XmlClose(NameB) }

RECURSIVE SeqsUpTo(_, _)
\* all sequences of at most n elements of S
SeqsUpTo(S, n) ==
    IF n = 0 THEN { << >> }
    ELSE LET shorter == SeqsUpTo(S, n - 1)
         IN  shorter \cup { Append(q, x) : q \in shorter, x \in S }

StructDocs == { Concat(us) : us \in SeqsUpTo(Units, MaxUnits) }

\* the structural documents of fewer units
ShortDocs == { Concat(us) : us \in SeqsUpTo(Units, MaxUnits - 1) }

\* the block-style pair of the documentation, closed by star-slash
BlockDocs == { BlockPair(NameA, << >>, Old, StarSlash) }

\* pipe segments as they are written after the name in an open tag
PipeSegs ==
    { <<"|","p","r","e","f","i","x",":","\"","A","\"">>,
      <<"|","s","u","f","f","i","x",":","\"","B","\"">>,
      <<"|","c","o","d","e",":">>,
      <<"|","c","o","d","e",":","n","u","l","l">>,
      <<"|","i","n","d","e","n","t",":","2">>,
      <<"|","r","e","p","l","a","c","e",":","n","u","l","l">>,
      <<"|","f","o","o",":">>,
      <<"|","f","o","o">> }

PipeExprs == { Concat(ps) : ps \in SeqsUpTo(PipeSegs, MaxPipes) }

PipeDocs == { XmlPair(NameA, pe, Old) : pe \in PipeExprs }

\* a variables entry: a string, a function of the current value, or absent
Missing == [t |-> "undefined", s |-> << >>]
Str(v) == [t |-> "string", s |-> v]
Fn == [t |-> "function", s |-> << >>]

\* the function variable of the tests: the current value reversed
CallVariable(value) == ReverseSeq(value)

PlainV == <<"V">>
PlainW == <<"W">>

VarMap(a, b) == (NameA :> a) @@ (NameB :> b)

\* variables maps tried on structural documents; one value is a close tag
StructVars ==
    { VarMap(a, b) :
        a \in { Missing, Str(PlainV), Str(XmlClose(NameB)) },
        b \in { Missing, Str(PlainW) } }

\* variables maps in which the value of a is a whole marker pair
PairValueVars ==
    { VarMap(Str(XmlPair(NameB, << >>, Old)), b) :
        b \in { Missing, Str(PlainW) } }

PipeVars == { VarMap(Str(<<"X">>), Missing), VarMap(Fn, Missing) }

\* documents for function variables: wrapped text with whitespace around
\* it, no wrapped text, and a pair behind a pair whose substitution changes
\* the length of the document
PaddedOld == <<" ", "o", "\n">>

FnDocs ==
    { XmlPair(NameA, << >>, PaddedOld),
      XmlPair(NameA, << >>, << >>),
      XmlPair(NameB, << >>, Old) \o XmlPair(NameA, << >>, PaddedOld),
      XmlPair(NameA, << >>, PaddedOld) \o <<"t">>
          \o XmlPair(NameB, << >>, Old) }

\* an open tag followed by a close tag of another name, also of a name
\* that begins with or is the beginning of the open tag's name
NameAB == <<"a", "b">>

MismatchDocs ==
    { XmlOpen(NameA, << >>) \o Old \o XmlClose(NameB),
      <<"t">> \o BlockOpen(NameA, << >>, StarBackslash) \o Old
          \o BlockClose(NameB, StarBackslash),
      XmlOpen(NameA, << >>) \o Old \o XmlClose(NameAB),
      XmlOpen(NameAB, << >>) \o Old \o XmlClose(NameA) }

MismatchVars == { VarMap(Fn, Missing), VarMap(Missing, Fn) }

\* the whitespace written between a comment delimiter and the braces: none,
\* one blank, several blanks, line breaks
Gaps == { << >>, <<" ">>, <<" ", " ", " ">>, <<"\n">>, <<"\t", "\r", "\n">> }

\* an open tag with the gaps g1 and g2 inside its delimiters
GapOpen(style, name, g1, g2) ==
    OpenDelim(style) \o g1 \o <<"=", "{">> \o name \o <<"}">> \o g2
        \o EndDelim(style)

GapClose(style, name, g1, g2) ==
    OpenDelim(style) \o g1 \o <<"{", "/">> \o name \o <<"}">> \o g2
        \o EndDelim(style)

\* a wrapped value of several lines
Lines == <<"o", "\n", "\n", " ", "l">>

\* a pair written with the gaps g1, g2 in its open tag and g2, g1 in its
\* close tag, around a value of several lines, with text before it
GapDoc(style, g1, g2) ==
    <<"t", "\n">> \o GapOpen(style, NameA, g1, g2) \o Lines
        \o GapClose(style, NameA, g2, g1)

GapDocs == { GapDoc(style, g1, g2) :
                style \in {"xml", "slash"}, g1 \in Gaps, g2 \in Gaps }

GapVars == { VarMap(Str(PlainV), Missing) }

\* a numeric argument before a further pipe, for a pipe that splits its
\* argument
NumericReplaceDocs ==
    { XmlPair(NameA,
              <<"|","r","e","p","l","a","c","e",":","5",
                "|","t","r","i","m",":","n","u","l","l">>,
              Old) }

\* the text written before the argument of a replace pipe
ReplacePrefix == <<"|","r","e","p","l","a","c","e",":","\"">>

\* a pair whose open tag holds the one pipe replace:"arg"
ReplaceDoc(arg) ==
    XmlPair(NameA, ReplacePrefix \o arg \o <<"\"">>, Old)

\* replace arguments with one comma, with two, and with a search text that
\* a regular expression would read as a wildcard
ReplaceArgs ==
    { <<"a", ",", "b">>,
      <<"a", ",", "b", ",", "c">>,
      <<".", ",", "b", ",", "c">>,
      <<"a", "a", ",", "b">> }

ReplaceDocs == { ReplaceDoc(arg) : arg \in ReplaceArgs }

\* values in which the search texts occur more than once
ReplaceVars ==
    { VarMap(Str(<<"a", ".", "a">>), Missing),
      VarMap(Str(<<"a", "a", "a", ".">>), Missing) }

\* pipe expressions written alike in the open tags of both styles: none, one
\* literal after the colon, no literal after the colon, several literals
\* after one colon
GrammarExprs ==
    { << >>,
      <<"|","p","r","e","f","i","x",":","\"","A","\"">>,
      <<"|","c","o","d","e",":","n","u","l","l">>,
      <<"|","c","o","d","e",":">>,
      <<"|","p","r","e","f","i","x",":","\"","A","\"","\"","B","\"">>,
      <<"|","s","t","r","i","n","g",":","t","r","u","e","5">> }

\* a slash pair and an xml pair of one name and one pipe expression
GrammarDoc(pe) ==
    BlockPair(NameA, pe, Old, StarBackslash) \o <<"t">>
        \o XmlPair(NameA, pe, Old)

GrammarDocs == { GrammarDoc(pe) : pe \in GrammarExprs }

\* the unregistered pipe foo with an argument
FooNull == <<"|","f","o","o",":","n","u","l","l">>

\* a pair of a whose open tag names the unregistered pipe, alone, left of a
\* pair of b and behind a slash pair of b
InvalidPipeDocs ==
    { XmlPair(NameA, FooNull, Old),
      XmlPair(NameA, FooNull, Old) \o <<"t">> \o XmlPair(NameB, << >>, Old),
      BlockPair(NameB, << >>, Old, StarBackslash)
          \o XmlPair(NameA, FooNull, Old) }

\* a is missing or a string, b is missing or a string
InvalidPipeVars ==
    { VarMap(a, b) : a \in { Missing, Str(PlainV) },
                     b \in { Missing, Str(PlainW) } }

\* the value of a is the empty string
EmptyVars ==
    { VarMap(Str(<< >>), b) : b \in { Missing, Str(PlainW) } }

FnVars == { VarMap(Fn, Str(PlainW)), VarMap(Fn, Fn), VarMap(Str(PlainV), Fn) }

\* exclude is absent, or a predicate on the name of the match
NoExclude == [has |-> FALSE, names |-> {}]
ExcludeNames(ns) == [has |-> TRUE, names |-> ns]

DefaultPatterns == <<"slash", "xml">>

Options ==
    { [throw |-> FALSE, patterns |-> DefaultPatterns, exclude |-> NoExclude],
      [throw |-> TRUE, patterns |-> DefaultPatterns, exclude |-> NoExclude] }

\* exclude answers true for the name b
ExcludeBOptions ==
    [throw |-> TRUE, patterns |-> DefaultPatterns,
     exclude |-> ExcludeNames({NameB})]

\* only the xml style is requested
XmlOnlyOptions ==
    [throw |-> FALSE, patterns |-> <<"xml">>, exclude |-> NoExclude]

\* exclude answers true for the name a: documents in which a pair named a
\* of one style lies inside, around or beside a pair named b of the other
ExcludeAOptions ==
    [throw |-> TRUE, patterns |-> DefaultPatterns,
     exclude |-> ExcludeNames({NameA})]

ExcludeADocs ==
    { XmlOpen(NameB, << >>) \o BlockPair(NameA, << >>, Old, StarBackslash)
          \o XmlClose(NameB),
      BlockOpen(NameA, << >>, StarBackslash) \o XmlPair(NameB, << >>, Old)
          \o BlockClose(NameA, StarBackslash),
      XmlPair(NameB, << >>, << >>) \o XmlPair(NameA, << >>, Old) }

\* the styles are requested in the order opposite to the default
XmlFirstOptions ==
    [throw |-> FALSE, patterns |-> <<"xml", "slash">>, exclude |-> NoExclude]

DefaultOptions ==
    [throw |-> FALSE, patterns |-> DefaultPatterns, exclude |-> NoExclude]

ThrowOptions ==
    [throw |-> TRUE, patterns |-> DefaultPatterns, exclude |-> NoExclude]

\* the most units a snippet document is made of
MaxSnippetUnits == 3

\* <!-- @{name} -->
SnippetOpenTag(name) ==
    <<"<","!","-","-"," ","@","{">> \o name \o <<"}"," ","-","-",">">>

SnippetPair(name, val) == SnippetOpenTag(name) \o val \o XmlClose(name)

\* wrapped snippet texts: one with whitespace around and a line break inside
SpacedVal == <<" ", "v", "\n", "w", " ">>
ShortVal == <<"u">>
BlankVal == <<" ", "\n">>

\* the units snippet documents are concatenated from: text outside any pair,
\* whole snippet pairs (two of one name, one of them blank) and stray tags
\* (an open tag of b followed by a close tag of b is an empty pair of b)
SnippetUnits ==
    { <<"t">>,
      SnippetPair(NameA, SpacedVal),
      SnippetPair(NameB, ShortVal),
      SnippetPair(NameB, BlankVal),
      SnippetOpenTag(NameB),
      XmlClose(NameB) }

SnippetDocs == { Concat(us) : us \in SeqsUpTo(SnippetUnits, MaxSnippetUnits) }

\* the documents the extracted map is substituted into
TargetDocs ==
    { <<"t">> \o XmlPair(NameA, << >>, Old) \o <<"t">>,
      XmlPair(NameB, << >>, Old) \o XmlPair(NameA, << >>, Old) }

NoSource == << "no source" >>
NoMap == << >>

\* ------------------------------------------------------------------------
\* commentTemplate as a state machine
\* ------------------------------------------------------------------------

VARIABLES
    content,                \* props.content
    variables,              \* props.variables
    throwIfMissingVariable, \* props.throwIfMissingVariable
    patterns,               \* props.patterns
    exclude,                \* props.exclude
    transformed,            \* the working document
    patIdx,                 \* position of the outer loop in patterns
    reversedMatches,        \* the reversed matches of the current style
    mIdx,                   \* position of the inner loop in reversedMatches
    match,                  \* the match being processed
    pipeString,             \* createPiper: its argument
    index,                  \* createPiper: the scan offset
    tokens,                 \* createPiper: the tokens pushed so far
    fn,                     \* the pipers createPiper returned
    pc,                     \* where the call stands
    error,                  \* the exception thrown, "none" if none
    result,                 \* the returned document
    round,                  \* 1 for the first call, 2 for the call on its output
    log,                    \* history: one entry per resolved match
    scanned,                \* history: the document the current style scanned
    original,               \* history: the content of the first call
    source,                 \* extractTemplateValues: its content argument
    items,                  \* extractTemplateValues: the entries pushed so far
    xIdx,                   \* extractTemplateValues: position in its matches
    extracted               \* extractTemplateValues: the returned map

vars == << content, variables, throwIfMissingVariable, patterns, exclude,
           transformed, patIdx, reversedMatches, mIdx, match, pipeString,
           index, tokens, fn, pc, error, result, round, log, scanned,
           original, source, items, xIdx, extracted >>

props == << content, variables, throwIfMissingVariable, patterns, exclude,
           original >>
loopVars == << transformed, patIdx, reversedMatches, mIdx, match, scanned >>
piperVars == << pipeString, index, tokens >>
extractVars == << source, items, xIdx, extracted >>

NoResult == << "no result" >>

\* a call of commentTemplate enters its outer loop
Start(c, vs, o) ==
    /\ content = c
    /\ variables = vs
    /\ throwIfMissingVariable = o.throw
    /\ patterns = o.patterns
    /\ exclude = o.exclude
    /\ transformed = c
    /\ patIdx = 1
    /\ reversedMatches = << >>
    /\ mIdx = 1
    /\ match = NoMatch
    /\ pipeString = << >>
    /\ index = 0
    /\ tokens = << >>
    /\ fn = << >>
    /\ pc = "scan"
    /\ error = "none"
    /\ result = NoResult
    /\ round = 1
    /\ log = << >>
    /\ scanned = c
    /\ original = c
    /\ source = NoSource
    /\ items = << >>
    /\ xIdx = 1
    /\ extracted = NoMap

\* a call of extractTemplateValues enters its loop; commentTemplate has not
\* been called yet
StartExtract(d) ==
    /\ source = d
    /\ items = << >>
    /\ xIdx = 1
    /\ extracted = NoMap
    /\ content = << >>
    /\ variables = NoMap
    /\ throwIfMissingVariable = DefaultOptions.throw
    /\ patterns = DefaultOptions.patterns
    /\ exclude = DefaultOptions.exclude
    /\ transformed = << >>
    /\ patIdx = 1
    /\ reversedMatches = << >>
    /\ mIdx = 1
    /\ match = NoMatch
    /\ pipeString = << >>
    /\ index = 0
    /\ tokens = << >>
    /\ fn = << >>
    /\ pc = "extract"
    /\ error = "none"
    /\ result = NoResult
    /\ round = 1
    /\ log = << >>
    /\ scanned = << >>
    /\ original = << >>

Init ==
    \/ \E c \in StructDocs, vs \in StructVars, o \in Options : Start(c, vs, o)
    \/ \E c \in PipeDocs \cup BlockDocs, vs \in PipeVars :
          Start(c, vs, DefaultOptions)
    \/ \E c \in ShortDocs, vs \in StructVars,
             o \in {XmlOnlyOptions, ExcludeBOptions} : Start(c, vs, o)
    \/ \E c \in ShortDocs, vs \in PairValueVars, o \in Options :
          Start(c, vs, o)
    \/ \E c \in ExcludeADocs, vs \in StructVars : Start(c, vs, ExcludeAOptions)
    \/ \E c \in ExcludeADocs, vs \in StructVars : Start(c, vs, XmlFirstOptions)
    \/ \E c \in FnDocs, vs \in FnVars : Start(c, vs, DefaultOptions)
    \/ \E c \in MismatchDocs, vs \in MismatchVars : Start(c, vs, ThrowOptions)
    \/ \E c \in NumericReplaceDocs, vs \in GapVars :
          Start(c, vs, DefaultOptions)
    \/ \E c \in GapDocs, vs \in GapVars : Start(c, vs, DefaultOptions)
    \/ \E c \in ReplaceDocs, vs \in ReplaceVars : Start(c, vs, DefaultOptions)
    \/ \E c \in GrammarDocs, vs \in GapVars : Start(c, vs, DefaultOptions)
    \/ \E c \in ShortDocs, vs \in EmptyVars : Start(c, vs, ThrowOptions)
    \/ \E c \in InvalidPipeDocs, vs \in InvalidPipeVars,
             o \in {DefaultOptions, ExcludeAOptions} : Start(c, vs, o)
    \/ \E d \in SnippetDocs : StartExtract(d)

\* the matches left in document order
ReversedMatches_Forward(style, doc) == MatchAll(style, doc)

\* [...transformed.matchAll(pattern)].reverse()
ReversedMatches(style, doc) == ReverseSeq(MatchAll(style, doc))

\* every style is matched against the content the call was given
ScanStyle_Content ==
    /\ pc = "scan"
    /\ patIdx <= Len(patterns)
    /\ reversedMatches' = ReversedMatches(patterns[patIdx], content)
    /\ scanned' = transformed
    /\ mIdx' = 1
    /\ pc' = "match"
    /\ UNCHANGED << props, extractVars,
                    transformed, patIdx, match, piperVars, fn, error,
                    result, round, log >>

\* for (const name of patterns): the matches of the next style, reversed
ScanStyle ==
    /\ pc = "scan"
    /\ patIdx <= Len(patterns)
    /\ reversedMatches' = ReversedMatches(patterns[patIdx], transformed)
    /\ scanned' = transformed
    /\ mIdx' = 1
    /\ pc' = "match"
    /\ UNCHANGED << props, extractVars,
                    transformed, patIdx, match, piperVars, fn, error,
                    result, round, log >>

\* an empty document is returned
Return_Empty ==
    /\ pc = "scan"
    /\ patIdx > Len(patterns)
    /\ result' = << >>
    /\ pc' = "done"
    /\ UNCHANGED << props, extractVars, loopVars, piperVars, fn, error,
                    round, log >>

\* return transformed
Return ==
    /\ pc = "scan"
    /\ patIdx > Len(patterns)
    /\ result' = transformed
    /\ pc' = "done"
    /\ UNCHANGED << props, extractVars,
                    loopVars, piperVars, fn, error, round, log >>

\* the inner loop is over: on to the next style
EndStyle ==
    /\ pc = "match"
    /\ mIdx > Len(reversedMatches)
    /\ patIdx' = patIdx + 1
    /\ pc' = "scan"
    /\ UNCHANGED << props, extractVars,
                    transformed, reversedMatches, mIdx, match,
                    scanned, piperVars, fn, error, result, round, log >>

\* for (const match of reversedMatches): createPiper(pipes) is entered; with
\* no pipe expression it returns the identity at once
BeginMatch ==
    /\ pc = "match"
    /\ mIdx <= Len(reversedMatches)
    /\ match' = reversedMatches[mIdx]
    /\ pipeString' = reversedMatches[mIdx].pipes
    /\ index' = 0
    /\ tokens' = << >>
    /\ fn' = << >>
    /\ pc' = IF reversedMatches[mIdx].pipes = << >> THEN "resolve"
             ELSE "tokenize"
    /\ UNCHANGED << props, extractVars,
                    transformed, patIdx, reversedMatches, mIdx,
                    scanned, error, result, round, log >>

\* ---- createPiper, first half: the tokenizer loop, one action per branch

\* the character the loop looks at
CurChar == pipeString[index + 1]

\* the first entry of primitives whose name stands at 0-based offset i
PrimitiveAt(i) ==
    LET hits == { k \in 1..Len(primitives) :
                    Slice(pipeString, i, i + Len(primitives[k].name))
                        = primitives[k].name }
    IN  IF hits = {} THEN 0 ELSE CHOOSE k \in hits : \A j \in hits : k <= j

\* while (index < pipeString.length) is false: the loop is left
TokEnd ==
    /\ pc = "tokenize"
    /\ index >= Len(pipeString)
    /\ pc' = "build"
    /\ UNCHANGED << props, extractVars,
                    loopVars, piperVars, fn, error, result, round, log >>

\* char === "|": the run of identifier characters becomes a pipe token
TokPipe ==
    /\ pc = "tokenize"
    /\ index < Len(pipeString)
    /\ CurChar = "|"
    /\ Len(tokens) < MaxTokens
    /\ LET remaining == SliceFrom(pipeString, index + 1)
           nextIndex == SearchNot(remaining, IdentChar)
       IN  /\ tokens' = Append(tokens, PipeToken(SliceTo(remaining, nextIndex)))
           /\ index' = index + 1 + nextIndex
    /\ UNCHANGED << props, extractVars,
                    loopVars, pipeString, fn, pc, error, result, round,
                    log >>

\* char === ":" followed by null, true or false
TokPrimitive ==
    /\ pc = "tokenize"
    /\ index < Len(pipeString)
    /\ CurChar = ":"
    /\ PrimitiveAt(index + 1) # 0
    /\ LET p == primitives[PrimitiveAt(index + 1)]
       IN  /\ tokens' = Append(tokens, ArgToken(p.value))
           /\ index' = index + 1 + Len(p.name)
    /\ UNCHANGED << props, extractVars,
                    loopVars, pipeString, fn, pc, error, result, round,
                    log >>

\* char === ":" at the end of the pipe expression: if (!value) break
TokBreak ==
    /\ pc = "tokenize"
    /\ index < Len(pipeString)
    /\ CurChar = ":"
    /\ PrimitiveAt(index + 1) = 0
    /\ index + 1 >= Len(pipeString)
    /\ index' = index + 1
    /\ pc' = "build"
    /\ UNCHANGED << props, extractVars,
                    loopVars, pipeString, tokens, fn, error, result,
                    round, log >>

\* char === ":" followed by a double quote: the text up to the next quote
TokString ==
    /\ pc = "tokenize"
    /\ index < Len(pipeString)
    /\ CurChar = ":"
    /\ PrimitiveAt(index + 1) = 0
    /\ index + 1 < Len(pipeString)
    /\ pipeString[index + 2] = "\""
    /\ LET q == IndexFrom(pipeString, "\"", index + 2)
           value == IF q = -1
                    THEN Slice(pipeString, index + 2, Len(pipeString) - 1)
                    ELSE Slice(pipeString, index + 2, q)
       IN  /\ tokens' = Append(tokens, ArgToken(ArgString(value)))
           /\ index' = index + 2 + Len(value) + 1
    /\ UNCHANGED << props, extractVars,
                    loopVars, pipeString, fn, pc, error, result, round,
                    log >>

\* char === ":" followed by one of [\.0-9_]: the run becomes a number
TokNumber ==
    /\ pc = "tokenize"
    /\ index < Len(pipeString)
    /\ CurChar = ":"
    /\ PrimitiveAt(index + 1) = 0
    /\ index + 1 < Len(pipeString)
    /\ pipeString[index + 2] \in NumChar
    /\ Len(tokens) < MaxTokens
    /\ LET remaining == SliceFrom(pipeString, index + 1)
           nextIndex == SearchNot(remaining, NumChar)
       IN  /\ tokens' = Append(tokens,
                               ArgToken(ArgNumber(SliceTo(remaining, nextIndex))))
           /\ index' = index + 1 + nextIndex
    /\ UNCHANGED << props, extractVars,
                    loopVars, pipeString, fn, pc, error, result, round,
                    log >>

\* char === ":" followed by anything else: both index++ are taken
TokColonSkip ==
    /\ pc = "tokenize"
    /\ index < Len(pipeString)
    /\ CurChar = ":"
    /\ PrimitiveAt(index + 1) = 0
    /\ index + 1 < Len(pipeString)
    /\ pipeString[index + 2] # "\""
    /\ pipeString[index + 2] \notin NumChar
    /\ index' = index + 2
    /\ UNCHANGED << props, extractVars,
                    loopVars, pipeString, tokens, fn, pc, error, result,
                    round, log >>

\* any other character: index++
TokSkip ==
    /\ pc = "tokenize"
    /\ index < Len(pipeString)
    /\ CurChar \notin {"|", ":"}
    /\ index' = index + 1
    /\ UNCHANGED << props, extractVars,
                    loopVars, pipeString, tokens, fn, pc, error, result,
                    round, log >>

\* ---- createPiper, second half

\* return combine(...fns)
PiperBuilt ==
    /\ pc = "build"
    /\ LET r == BuildFns(tokens, << >>, << >>, << >>)
       IN  /\ r.error = "none"
           /\ fn' = r.fns
    /\ pc' = "resolve"
    /\ UNCHANGED << props, extractVars,
                    loopVars, piperVars, error, result, round, log >>

\* the unregistered name is passed over and the pipers built so far are kept
ThrowInvalidPipeName_Ignore ==
    /\ pc = "build"
    /\ BuildFns(tokens, << >>, << >>, << >>).error = "InvalidPipeName"
    /\ fn' = BuildFns(tokens, << >>, << >>, << >>).fns
    /\ pc' = "resolve"
    /\ UNCHANGED << props, extractVars,
                    loopVars, piperVars, error, result, round, log >>

\* throw new CommentTemplateError("Invalid pipe name: ...")
ThrowInvalidPipeName ==
    /\ pc = "build"
    /\ BuildFns(tokens, << >>, << >>, << >>).error = "InvalidPipeName"
    /\ pc' = "threw"
    /\ error' = "InvalidPipeName"
    /\ UNCHANGED << props, extractVars,
                    loopVars, piperVars, fn, result, round, log >>

\* a pipe factory throws: value.split of a value that is not a string
ThrowTypeError ==
    /\ pc = "build"
    /\ BuildFns(tokens, << >>, << >>, << >>).error = "TypeError"
    /\ pc' = "threw"
    /\ error' = "TypeError"
    /\ UNCHANGED << props, extractVars,
                    loopVars, piperVars, fn, result, round, log >>

\* the exceptions that are CommentTemplateError instances
IsCommentTemplateError(e) == e \in {"InvalidPipeName", "MissingVariable"}

\* ---- the body of the inner loop after createPiper

\* if (!name || !open || !close || typeof start !== "number" || !length)
Skipped(m) ==
    m.name = << >> \/ m.open = << >> \/ m.close = << >> \/ Len(m.full) = 0

\* an empty string is taken for an absent entry
Lookup_EmptyAbsent(name) ==
    IF name \in DOMAIN variables /\ variables[name] # Str(<< >>)
    THEN variables[name] ELSE Missing

\* variables[name]
Lookup(name) == IF name \in DOMAIN variables THEN variables[name] ELSE Missing

\* the wrapped text with its surrounding whitespace removed
VariableArg_Trimmed(m) == Trim(m.value)

\* the argument of variable(value): the value group of the match
VariableArg(m) == m.value

\* the arguments of the calls of the variable made for a match: one call
\* when the variable is a function, none otherwise
VariableCalls(m) ==
    IF Lookup(m.name).t = "function" THEN << VariableArg(m) >> ELSE << >>

\* replacementValue
ReplacementValue(m) ==
    LET variable == Lookup(m.name)
    IN  IF variable.t = "string" THEN combine(fn, variable.s)
        ELSE IF variable.t = "function"
             THEN combine(fn, CallVariable(VariableArg(m)))
        ELSE << >>

\* replaceEnd is taken back from end by the length of the open tag
Details_OpenLength(m) ==
    [end          |-> m.index + Len(m.full),
     start        |-> m.index,
     name         |-> m.name,
     replaceEnd   |-> m.index + Len(m.full) - Len(m.open),
     replaceStart |-> m.index + Len(m.open),
     fullMatch    |-> m.full,
     value        |-> ReplacementValue(m)]

\* the ExcludeDetails of a match
Details(m) ==
    [end          |-> m.index + Len(m.full),
     start        |-> m.index,
     name         |-> m.name,
     replaceEnd   |-> m.index + Len(m.full) - Len(m.close),
     replaceStart |-> m.index + Len(m.open),
     fullMatch    |-> m.full,
     value        |-> ReplacementValue(m)]

\* exclude is never asked
ExcludeCall_Never(details) == FALSE

\* exclude?.(details)
ExcludeCall(details) == exclude.has /\ details.name \in exclude.names

\* the history entry of one resolved match
LogEntry(outcome) ==
    [pass     |-> patIdx,
     style    |-> patterns[patIdx],
     details  |-> Details(match),
     open     |-> match.open,
     close    |-> match.close,
     pipes    |-> match.pipes,
     old      |-> match.value,
     variable |-> Lookup(match.name),
     fn       |-> fn,
     called   |-> exclude.has,
     args     |-> VariableCalls(match),
     doc      |-> transformed,
     outcome  |-> outcome]

\* if (exclude?.(details)) continue
Excluded ==
    /\ pc = "resolve"
    /\ ~ Skipped(match)
    /\ ExcludeCall(Details(match))
    /\ log' = Append(log, LogEntry("excluded"))
    /\ mIdx' = mIdx + 1
    /\ pc' = "match"
    /\ UNCHANGED << props, extractVars,
                    transformed, patIdx, reversedMatches, match,
                    scanned, piperVars, fn, error, result, round >>

\* the missing variable is passed over although throwIfMissingVariable is set
ThrowMissing_Continue ==
    /\ pc = "resolve"
    /\ ~ Skipped(match)
    /\ ~ ExcludeCall(Details(match))
    /\ Lookup(match.name).t = "undefined"
    /\ throwIfMissingVariable
    /\ log' = Append(log, LogEntry("missing"))
    /\ mIdx' = mIdx + 1
    /\ pc' = "match"
    /\ UNCHANGED << props, extractVars,
                    transformed, patIdx, reversedMatches, match,
                    scanned, piperVars, fn, error, result, round >>

\* variable == null and throwIfMissingVariable: throw CommentTemplateError
ThrowMissing ==
    /\ pc = "resolve"
    /\ ~ Skipped(match)
    /\ ~ ExcludeCall(Details(match))
    /\ Lookup(match.name).t = "undefined"
    /\ throwIfMissingVariable
    /\ log' = Append(log, LogEntry("missing"))
    /\ pc' = "threw"
    /\ error' = "MissingVariable"
    /\ UNCHANGED << props, extractVars,
                    loopVars, piperVars, fn, result, round >>

\* break instead of continue: the remaining matches of the style are dropped
SkipMissing_Break ==
    /\ pc = "resolve"
    /\ ~ Skipped(match)
    /\ ~ ExcludeCall(Details(match))
    /\ Lookup(match.name).t = "undefined"
    /\ ~ throwIfMissingVariable
    /\ log' = Append(log, LogEntry("missing"))
    /\ mIdx' = Len(reversedMatches) + 1
    /\ pc' = "match"
    /\ UNCHANGED << props, extractVars,
                    transformed, patIdx, reversedMatches, match,
                    scanned, piperVars, fn, error, result, round >>

\* variable == null without throwIfMissingVariable: continue
SkipMissing ==
    /\ pc = "resolve"
    /\ ~ Skipped(match)
    /\ ~ ExcludeCall(Details(match))
    /\ Lookup(match.name).t = "undefined"
    /\ ~ throwIfMissingVariable
    /\ log' = Append(log, LogEntry("missing"))
    /\ mIdx' = mIdx + 1
    /\ pc' = "match"
    /\ UNCHANGED << props, extractVars,
                    transformed, patIdx, reversedMatches, match,
                    scanned, piperVars, fn, error, result, round >>

\* after is cut at replaceStart: the old wrapped value is kept behind the new
Splice_KeepOld ==
    /\ pc = "resolve"
    /\ ~ Skipped(match)
    /\ ~ ExcludeCall(Details(match))
    /\ Lookup(match.name).t # "undefined"
    /\ LET d == Details(match)
           before == Slice(transformed, 0, d.replaceStart)
           after == Slice(transformed, d.replaceStart, Len(transformed))
       IN  transformed' = before \o d.value \o after
    /\ log' = Append(log, LogEntry("spliced"))
    /\ mIdx' = mIdx + 1
    /\ pc' = "match"
    /\ UNCHANGED << props, extractVars,
                    patIdx, reversedMatches, match, scanned,
                    piperVars, fn, error, result, round >>

\* transformed = before + replacementValue + after
Splice ==
    /\ pc = "resolve"
    /\ ~ Skipped(match)
    /\ ~ ExcludeCall(Details(match))
    /\ Lookup(match.name).t # "undefined"
    /\ LET d == Details(match)
           before == Slice(transformed, 0, d.replaceStart)
           after == Slice(transformed, d.replaceEnd, Len(transformed))
       IN  transformed' = before \o d.value \o after
    /\ log' = Append(log, LogEntry("spliced"))
    /\ mIdx' = mIdx + 1
    /\ pc' = "match"
    /\ UNCHANGED << props, extractVars,
                    patIdx, reversedMatches, match, scanned,
                    piperVars, fn, error, result, round >>

\* the caller runs commentTemplate again on the returned document, with the
\* same variables and options
Rerun ==
    /\ pc = "done"
    /\ round = 1
    /\ content' = result
    /\ transformed' = result
    /\ patIdx' = 1
    /\ reversedMatches' = << >>
    /\ mIdx' = 1
    /\ match' = NoMatch
    /\ pipeString' = << >>
    /\ index' = 0
    /\ tokens' = << >>
    /\ fn' = << >>
    /\ pc' = "scan"
    /\ result' = NoResult
    /\ round' = 2
    /\ log' = << >>
    /\ scanned' = result
    /\ UNCHANGED << variables, throwIfMissingVariable, patterns, exclude,
                    original, error, extractVars >>

\* ---- extractTemplateValues

\* the match the loop of extractTemplateValues stands at
SnippetMatch == SnippetAll(source)[xIdx]

\* if (!name || !open || !close || typeof start !== "number" || !length ||
\* !value): of these only an empty value can be true of a match
SnippetSkipped(m) ==
    m.name = << >> \/ m.open = << >> \/ m.close = << >> \/ Len(m.full) = 0
        \/ m.value = << >>

\* the match is passed over: continue
ExtractContinue ==
    /\ pc = "extract"
    /\ xIdx <= Len(SnippetAll(source))
    /\ SnippetSkipped(SnippetMatch)
    /\ xIdx' = xIdx + 1
    /\ UNCHANGED << props, loopVars, piperVars, fn, pc, error, result, round,
                    log, source, items, extracted >>

\* the entry is pushed with the untrimmed value
ExtractPush_Untrimmed ==
    /\ pc = "extract"
    /\ xIdx <= Len(SnippetAll(source))
    /\ ~ SnippetSkipped(SnippetMatch)
    /\ items' = Append(items, [name  |-> SnippetMatch.name,
                               value |-> SnippetMatch.value])
    /\ xIdx' = xIdx + 1
    /\ UNCHANGED << props, loopVars, piperVars, fn, pc, error, result, round,
                    log, source, extracted >>

\* items.push([name, value.trim()])
ExtractPush ==
    /\ pc = "extract"
    /\ xIdx <= Len(SnippetAll(source))
    /\ ~ SnippetSkipped(SnippetMatch)
    /\ items' = Append(items, [name  |-> SnippetMatch.name,
                               value |-> Trim(SnippetMatch.value)])
    /\ xIdx' = xIdx + 1
    /\ UNCHANGED << props, loopVars, piperVars, fn, pc, error, result, round,
                    log, source, extracted >>

\* new Map(items): a later entry of a name replaces an earlier one
MapOf(es) ==
    [n \in { es[k].name : k \in 1..Len(es) } |->
        LET last == CHOOSE k \in 1..Len(es) :
                        /\ es[k].name = n
                        /\ \A j \in (k + 1)..Len(es) : es[j].name # n
        IN  es[last].value]

\* return new Map(items)
ExtractReturn ==
    /\ pc = "extract"
    /\ xIdx > Len(SnippetAll(source))
    /\ extracted' = MapOf(items)
    /\ pc' = "extracted"
    /\ UNCHANGED << props, loopVars, piperVars, fn, error, result, round, log,
                    source, items, xIdx >>

\* Object.fromEntries(map) as a variables object
FromEntries(map) == [n \in DOMAIN map |-> Str(map[n])]

\* the documentation script: the extracted map becomes the variables of a
\* commentTemplate call on another document, all options at their defaults
Substitute ==
    /\ pc = "extracted"
    /\ \E c \in TargetDocs :
          /\ content' = c
          /\ transformed' = c
          /\ scanned' = c
          /\ original' = c
    /\ variables' = FromEntries(extracted)
    /\ pc' = "scan"
    /\ UNCHANGED << throwIfMissingVariable, patterns, exclude, patIdx,
                    reversedMatches, mIdx, match, piperVars, fn, error,
                    result, round, log, extractVars >>

Next ==
    \/ ExtractContinue
    \/ ExtractPush
    \/ ExtractReturn
    \/ Substitute
    \/ ScanStyle
    \/ Return
    \/ EndStyle
    \/ BeginMatch
    \/ TokEnd
    \/ TokPipe
    \/ TokPrimitive
    \/ TokBreak
    \/ TokString
    \/ TokNumber
    \/ TokColonSkip
    \/ TokSkip
    \/ PiperBuilt
    \/ ThrowInvalidPipeName
    \/ ThrowTypeError
    \/ Excluded
    \/ ThrowMissing
    \/ SkipMissing
    \/ Splice
    \/ Rerun

Spec == Init /\ [][Next]_vars

\* ------------------------------------------------------------------------
\* Properties
\* ------------------------------------------------------------------------

\* the inner loop of the current style has handled its last match
PassDone == pc = "match" /\ mIdx > Len(reversedMatches)

\* the history entries of style pass k, in the order they were resolved
PassEntries(k) == SelectSeq(log, LAMBDA e : e.pass = k)

\* sub occurs in s
Contains(s, sub) == \E i \in 1..(Len(s) - Len(sub) + 1) : LitAt(s, i, sub)

\* the entry is a pair with a plain string variable and no pipes that was
\* substituted
PlainSpliced(e) ==
    e.outcome = "spliced" /\ e.variable.t = "string" /\ e.pipes = << >>

\* the text an entry's pair is expected to wrap after its pass
ExpectedInner(e) ==
    IF PlainSpliced(e) THEN e.variable.s
    ELSE IF e.outcome = "spliced" THEN e.details.value
    ELSE e.old

RECURSIVE Rebuild(_, _, _)
\* the document built in one left-to-right sweep over input from 0-based
\* offset pos: unmatched spans and tags are copied, wrapped regions are
\* replaced by what is expected of them (es in document order)
Rebuild(input, es, pos) ==
    IF es = << >> THEN SliceFrom(input, pos)
    ELSE LET e == Head(es)
         IN  Slice(input, pos, e.details.start) \o e.open \o ExpectedInner(e)
                 \o e.close \o Rebuild(input, Tail(es), e.details.end)

\* C1 (as amended): when a style pass ends, the working document is the
\* document that pass scanned with every substituted pair's wrapped text
\* replaced - by the variable's string exactly where the variable is a plain
\* string and the open tag has no pipes - and every character outside the
\* replaced regions (tags, unrelated text, skipped pairs) unchanged.
C1_PassFrame ==
    PassDone =>
        transformed = Rebuild(scanned, ReverseSeq(PassEntries(patIdx)), 0)

\* C1 witness: a pass that substituted two plain-string pairs, one of them
\* changing the length of the document left of the other
C1_Witness ==
    /\ PassDone
    /\ \E i, j \in 1..Len(log) :
          /\ i < j
          /\ log[i].pass = patIdx /\ log[j].pass = patIdx
          /\ PlainSpliced(log[i]) /\ PlainSpliced(log[j])
          /\ Len(log[j].old) # Len(log[j].variable.s)

\* the pair of the entry ended at the first close tag of its name
FirstClose(e) ==
    \A q \in 1..Len(e.old) : CloseEnd(e.style, e.old, q, e.details.name) = 0

\* C1 (as stated): in the returned document every matched pair with a plain
\* string variable and no pipes wraps exactly that string between its open
\* and close tags (taken over the calls in which every pair ended at the
\* first close tag of its name and exclude is absent).
C1_Original ==
    (pc = "done" /\ ~ exclude.has /\ \A k \in 1..Len(log) : FirstClose(log[k])) =>
        \A i \in 1..Len(log) :
            PlainSpliced(log[i]) =>
                Contains(result, log[i].open \o log[i].variable.s
                                     \o log[i].close)

\* the style whose matches are being handled
CurStyle == patterns[patIdx]

\* two consecutive pairs of the same name with text between them
TwoPairs(v) ==
    XmlPair(NameA, << >>, v) \o <<"t">> \o XmlPair(NameA, << >>, v)

\* C2 (as stated): matching is non-greedy - no match's wrapped value holds a
\* close tag of the match's own name - and a document of two consecutive
\* pairs of one name comes back with both values replaced and the text
\* between the pairs preserved.
C2_NonGreedy ==
    /\ pc \in {"match", "tokenize", "build", "resolve"} =>
          \A k \in 1..Len(reversedMatches) :
              \A q \in 1..Len(reversedMatches[k].value) :
                  CloseEnd(CurStyle, reversedMatches[k].value, q,
                           reversedMatches[k].name) = 0
    /\ (pc = "done" /\ original = TwoPairs(Old)
            /\ variables[NameA] = Str(PlainV)) =>
          result = TwoPairs(PlainV)

\* C3 (as stated): the block-style pair closed by star-slash is recognised
\* and its wrapped text replaced by the string variable.
C3_BlockRecognised ==
    (pc = "done" /\ round = 1
        /\ content = BlockPair(NameA, << >>, Old, StarSlash)
        /\ variables[NameA].t = "string") =>
        result = BlockPair(NameA, << >>, variables[NameA].s, StarSlash)

\* C4 (as stated): the offset of the pipe tokenizer strictly advances on
\* every iteration of its loop.
C4_IndexAdvances ==
    [][(pc = "tokenize" /\ pc' = "tokenize") => index' > index]_vars

\* ---- the pipe expression as the marker grammar reads it

\* the value of the argument literal that stands at s[i .. e - 1]
ArgValue(s, i, e) ==
    IF LitAt(s, i, <<"n","u","l","l">>) THEN ArgNull
    ELSE IF LitAt(s, i, <<"t","r","u","e">>) THEN ArgTrue
    ELSE IF LitAt(s, i, <<"f","a","l","s","e">>) THEN ArgFalse
    ELSE IF s[i] = "\"" THEN ArgString(SubSeq(s, i + 1, e - 2))
    ELSE ArgNumber(SubSeq(s, i, e - 1))

RECURSIVE WrittenArgs(_, _)
\* the argument literals written from position i on
WrittenArgs(s, i) ==
    LET e == ArgEnd(s, i)
    IN  IF e = 0 THEN << >>
        ELSE << ArgValue(s, i, e) >> \o WrittenArgs(s, e)

RECURSIVE WrittenPipes(_, _)
\* the |name:args segments written in the pipe expression s from position i
WrittenPipes(s, i) ==
    IF ~ LitAt(s, i, <<"|">>) THEN << >>
    ELSE LET n == RunEnd(s, i + 1, IdentChar)
         IN  IF n = i + 1 \/ ~ LitAt(s, n, <<":">>) THEN << >>
             ELSE << [name |-> SubSeq(s, i + 1, n - 1),
                      args |-> WrittenArgs(s, n + 1)] >>
                  \o WrittenPipes(s, ArgsEnd(s, n + 1))

FooBare == <<"|","f","o","o">>
FooColon == <<"|","f","o","o",":">>

\* C5 (as stated): the pair written ={a|foo}, foo not a registered pipe,
\* makes the call throw a CommentTemplateError instead of returning.
C5_Original ==
    (content = XmlPair(NameA, FooBare, Old) /\ pc \in {"done", "threw"}) =>
        (pc = "threw" /\ IsCommentTemplateError(error))

\* C5 (as amended): a pair whose pipe expression the grammar accepts and
\* which begins with the unregistered pipe written with its colon,
\* ={a|foo:...}, never reaches variable resolution and never returns a
\* document; the exception it ends with is the invalid-pipe-name
\* CommentTemplateError.
C5_InvalidPipeThrows ==
    LET o == MatchOpen("xml", original, 1)
    IN  (o.ok /\ LitAt(o.pipes, 1, FooColon)
            /\ original = XmlPair(NameA, o.pipes, Old)) =>
            /\ pc \notin {"done", "resolve"}
            /\ pc = "threw" => (error = "InvalidPipeName" /\ result = NoResult)

\* C5 witness: the call on ={a|foo:} has thrown
C5_Witness ==
    /\ original = XmlPair(NameA, FooColon, Old)
    /\ pc = "threw"
    /\ error = "InvalidPipeName"
    /\ result = NoResult

\* C6: once a matched marker is resolved whose variable is missing, which
\* exclude does not skip, with throwIfMissingVariable set, the call has
\* thrown the missing-variable CommentTemplateError at that marker and
\* returns no document, whatever was substituted before.
C6_MissingThrows ==
    \A i \in 1..Len(log) :
        (log[i].variable.t = "undefined" /\ log[i].outcome # "excluded"
            /\ throwIfMissingVariable) =>
            /\ i = Len(log)
            /\ pc = "threw"
            /\ error = "MissingVariable"
            /\ result = NoResult

\* C6 witness: the throw came after another marker had been substituted
C6_Witness ==
    /\ pc = "threw"
    /\ error = "MissingVariable"
    /\ \E i \in 1..(Len(log) - 1) : log[i].outcome = "spliced"

RECURSIVE ShiftLeftOf(_, _)
\* by how much the splices of the entries es moved the text at offset start:
\* the length changes of the substituted pairs that begin left of it
ShiftLeftOf(es, start) ==
    IF es = << >> THEN 0
    ELSE (IF Head(es).outcome = "spliced" /\ Head(es).details.start < start
          THEN Len(Head(es).details.value) - Len(Head(es).old) ELSE 0)
         + ShiftLeftOf(Tail(es), start)

Resolved(e) ==
    IF e.variable.t = "string" THEN e.variable.s ELSE CallVariable(e.old)

\* every written pipe is registered and carries exactly one keyword or
\* quoted-string argument
WellFormed(ps) ==
    \A k \in 1..Len(ps) :
        /\ ps[k].name \in PipeNames
        /\ Len(ps[k].args) = 1
        /\ ps[k].args[1].t \in {"string", "null", "boolean"}

RECURSIVE ApplyWritten(_, _)
\* pn(...p2(p1(X))) for the written pipes ps = p1, ..., pn
ApplyWritten(ps, X) ==
    IF ps = << >> THEN X
    ELSE ApplyPipe(ps[Len(ps)].name, ps[Len(ps)].args,
                   ApplyWritten(SubSeq(ps, 1, Len(ps) - 1), X))

PrefixA == <<"|","p","r","e","f","i","x",":","\"","A","\"">>
SuffixB == <<"|","s","u","f","f","i","x",":","\"","B","\"">>
CodeEmpty == <<"|","c","o","d","e",":">>

PipeTokenNames(toks) ==
    LET ps == SelectSeq(toks, LAMBDA t : t.type = "pipe")
    IN  [k \in 1..Len(ps) |-> ps[k].name]

\* C9 (as stated): for a pipe expression of registered pipes the tokenizer
\* emits exactly one pipe token per written |name segment, in order, and
\* ={a|code:|suffix:"B"} yields the value in backticks followed by the
\* suffix.
C9_EveryPipeApplied ==
    /\ pc = "build" =>
          LET ps == WrittenPipes(pipeString, 1)
          IN  (\A k \in 1..Len(ps) : ps[k].name \in PipeNames) =>
                  PipeTokenNames(tokens) = [k \in 1..Len(ps) |-> ps[k].name]
    /\ \A i \in 1..Len(log) :
          (log[i].pipes = CodeEmpty \o SuffixB
              /\ log[i].variable.t # "undefined") =>
              log[i].details.value
                  = <<Tick>> \o Resolved(log[i]) \o <<Tick, "B">>

\* every entry of the variables map is a plain string (or absent)
PlainStrings ==
    \A n \in DOMAIN variables : variables[n].t \in {"string", "undefined"}

\* no pipe is written in d
NoPipes(d) == \A i \in 1..Len(d) : d[i] # "|"

\* a close tag of any name stands at position q of s
AnyCloseAt(style, s, q) ==
    /\ LitAt(s, q, OpenDelim(style))
    /\ LET j1 == RunEnd(s, q + Len(OpenDelim(style)), Space)
       IN  /\ LitAt(s, j1, <<"{", "/">>)
           /\ j1 + 2 <= Len(s)
           /\ s[j1 + 2] \in NameStart
           /\ LET nEnd == RunEnd(s, j1 + 3, NameChar)
              IN  /\ LitAt(s, nEnd, <<"}">>)
                  /\ LitAt(s, RunEnd(s, nEnd + 1, Space), EndDelim(style))

\* v holds an open or a close tag of one of the styles
HasTag(v) ==
    \E style \in {"xml", "slash"}, i \in 1..Len(v) :
        MatchOpen(style, v, i).ok \/ AnyCloseAt(style, v, i)

\* C10 (as stated): for a document without pipes and plain string
\* variables, the call on the returned document returns it unchanged.
C10_Original ==
    (pc = "done" /\ round = 2 /\ NoPipes(original) /\ PlainStrings) =>
        result = content

\* C10 (as amended): the same, for variables none of whose values holds an
\* open or close tag.
C10_Idempotent ==
    (pc = "done" /\ round = 2 /\ NoPipes(original) /\ PlainStrings
        /\ \A n \in DOMAIN variables : ~ HasTag(variables[n].s)) =>
        result = content

\* C10 witness: a second call that substituted again and changed nothing,
\* on a document the first call had changed
C10_Witness ==
    /\ pc = "done" /\ round = 2 /\ NoPipes(original) /\ PlainStrings
    /\ \A n \in DOMAIN variables : ~ HasTag(variables[n].s)
    /\ content # original
    /\ \E i \in 1..Len(log) : log[i].outcome = "spliced"
    /\ result = content

\* ------------------------------------------------------------------------
\* extractTemplateValues and its round trip with commentTemplate
\* ------------------------------------------------------------------------

\* extractTemplateValues has returned
Extracted == source # NoSource /\ pc # "extract"

\* the names and wrapped texts that snippet documents are written with
SnippetNames == {NameA, NameB}
SnippetVals == {SpacedVal, ShortVal, BlankVal, << >>}

\* the 1-based positions of d at which a snippet open tag named x stands
OpenTagsOf(d, x) ==
    { p \in 1..Len(d) : SnippetOpen(d, p).ok /\ SnippetOpen(d, p).name = x }

\* the 1-based positions of d at which a close tag named x stands
CloseTagsOf(d, x) == { q \in 1..Len(d) : CloseEnd("xml", d, q, x) # 0 }

\* the pair <!-- @{x} -->val<!-- {/x} --> stands in d, x names no other
\* snippet tag of d, and the pair does not lie between the open and the
\* close tag of another snippet pair
Standalone(d, x, val) ==
    \E i \in 1..Len(d) :
        /\ LitAt(d, i, SnippetPair(x, val))
        /\ Cardinality(OpenTagsOf(d, x)) = 1
        /\ Cardinality(CloseTagsOf(d, x)) = 1
        /\ \A y \in SnippetNames \ {x} :
              ~ \E p \in OpenTagsOf(d, y), q \in CloseTagsOf(d, y) :
                    p < i /\ q >= i + Len(SnippetPair(x, val))

RECURSIVE ReplacePair(_, _, _)
\* c with the wrapped text of every pair <!-- ={x} -->old<!-- {/x} -->
\* replaced by v
ReplacePair(c, x, v) ==
    IF c = << >> THEN << >>
    ELSE IF LitAt(c, 1, XmlPair(x, << >>, Old))
         THEN XmlOpen(x, << >>) \o v \o XmlClose(x)
                  \o ReplacePair(SliceFrom(c, Len(XmlPair(x, << >>, Old))),
                                 x, v)
         ELSE << Head(c) >> \o ReplacePair(Tail(c), x, v)

\* the target document with the old text of every extracted name replaced
RoundTrip(c, map) ==
    LET c1 == IF NameA \in DOMAIN map THEN ReplacePair(c, NameA, map[NameA])
              ELSE c
    IN  IF NameB \in DOMAIN map THEN ReplacePair(c1, NameB, map[NameB])
        ELSE c1

\* what C11 promises of name x and wrapped text val
RoundTripHolds(x, val) ==
    /\ x \in DOMAIN extracted
    /\ extracted[x] = Trim(val)
    /\ (pc = "done" /\ Contains(original, XmlPair(x, << >>, Old)))
          => result = RoundTrip(original, extracted)

\* every snippet match of d ends at the first close tag of its name
SnippetFirstClose(d) ==
    \A k \in 1..Len(SnippetAll(d)) :
        LET m == SnippetAll(d)[k]
        IN  ~ \E q \in CloseTagsOf(d, m.name) :
                  /\ q > m.index + Len(m.open)
                  /\ q < m.index + Len(m.full) - Len(m.close) + 1

PairNames(d) ==
    { x \in SnippetNames :
        \E val \in SnippetVals, p \in 1..Len(d) :
            LitAt(d, p, SnippetPair(x, val)) }

\* the wrapped text of the first pair named x that stands in d
PairVal(d, x) ==
    LET at == { p \in 1..Len(d) :
                  \E val \in SnippetVals : LitAt(d, p, SnippetPair(x, val)) }
        p0 == CHOOSE p \in at : \A r \in at : p <= r
    IN  CHOOSE val \in SnippetVals :
            /\ LitAt(d, p0, SnippetPair(x, val))
            /\ \A w \in SnippetVals :
                  LitAt(d, p0, SnippetPair(x, w)) => Len(val) <= Len(w)

\* the map C12 describes: every pair's name to its trimmed wrapped text
TrimmedPairs(d) == [x \in PairNames(d) |-> Trim(PairVal(d, x))]

\* no name opens two snippet pairs of d
DistinctNames(d) ==
    \A x \in SnippetNames : Cardinality(OpenTagsOf(d, x)) <= 1

\* every snippet tag of d belongs to a whole pair of its own name that wraps
\* plain text: the pairs stand side by side, none inside another
SideBySide(d) ==
    \A x \in SnippetNames :
        /\ Cardinality(CloseTagsOf(d, x)) = Cardinality(OpenTagsOf(d, x))
        /\ \A p \in OpenTagsOf(d, x) :
              \E val \in SnippetVals : LitAt(d, p, SnippetPair(x, val))

\* no pair of d wraps nothing or only whitespace
NoBlankPair(d) == \A x \in PairNames(d) : Trim(PairVal(d, x)) # << >>

\* C12 (as stated): for a document with snippet pairs of pairwise distinct
\* names the returned map has exactly those names, each taken to its own
\* trimmed wrapped text.  (Documents in which a match runs past the first
\* close tag of its name are left out.)
C12_Original ==
    (pc = "extracted" /\ DistinctNames(source)
        /\ SnippetFirstClose(source)) =>
        extracted = TrimmedPairs(source)

\* C12 (as amended): the same for pairs that stand side by side and wrap
\* text that is not blank; interior whitespace and line breaks are kept and
\* text outside the pairs is under no name.
C12_ExtractsEach ==
    (pc = "extracted" /\ DistinctNames(source) /\ SideBySide(source)
        /\ NoBlankPair(source)) =>
        extracted = TrimmedPairs(source)

\* C12 witness: two pairs of different names with text between them
C12_Witness ==
    /\ Extracted
    /\ source = SnippetPair(NameA, SpacedVal) \o <<"t">>
                    \o SnippetPair(NameB, ShortVal)
    /\ extracted = (NameA :> <<"v", "\n", "w">>) @@ (NameB :> <<"u">>)

\* C13: no returned name is mapped to the empty string: a pair that wraps
\* nothing or only whitespace is not recorded.
C13_BlankNotRecorded ==
    pc = "extracted" => \A x \in DOMAIN extracted : extracted[x] # << >>

\* the wrapped text of the last pair named x that stands in d
LastPairVal(d, x) ==
    LET at == { p \in 1..Len(d) :
                  \E val \in SnippetVals : LitAt(d, p, SnippetPair(x, val)) }
        p1 == CHOOSE p \in at : \A r \in at : r <= p
    IN  CHOOSE val \in SnippetVals :
            /\ LitAt(d, p1, SnippetPair(x, val))
            /\ \A w \in SnippetVals :
                  LitAt(d, p1, SnippetPair(x, w)) => Len(val) <= Len(w)

\* C14: when two snippet pairs of one name stand side by side in the
\* document, the name is mapped to the trimmed wrapped text of the last of
\* them (here: a last pair whose text is not blank).
C14_LastWins ==
    pc = "extracted" =>
        \A x \in PairNames(source) :
            (/\ SideBySide(source)
             /\ Cardinality(OpenTagsOf(source, x)) >= 2
             /\ Trim(LastPairVal(source, x)) # << >>)
                => /\ x \in DOMAIN extracted
                   /\ extracted[x] = Trim(LastPairVal(source, x))

\* ------------------------------------------------------------------------
\* Variable resolution, exclude and the shape of markers
\* ------------------------------------------------------------------------

\* the text that stood between the tags of an entry's pair in the working
\* document when the pair was resolved
WrappedThen(e) == Slice(e.doc, e.details.replaceStart, e.details.replaceEnd)

\* the entry logged last
LastEntry == log[Len(log)]

\* C15, of every match when it has been resolved (the entry logged last):
\* for a string variable the replacement is the pipe transform of the
\* string and the variable is not called; for a function variable the
\* function is called once, with the text that stands between the pair's
\* tags in the working document exactly as it is (untrimmed, possibly
\* empty), and the replacement is the pipe transform of what it returns.
C15_VariableResolution ==
    log # << >> =>
        LET e == LastEntry
        IN  /\ e.variable.t = "string" =>
                  /\ e.args = << >>
                  /\ e.details.value = combine(e.fn, e.variable.s)
            /\ e.variable.t = "function" =>
                  /\ e.args = << WrappedThen(e) >>
                  /\ e.details.value = combine(e.fn, CallVariable(WrappedThen(e)))

\* C15 witness: in one call a function variable was called with a padded
\* wrapped text and a string variable replaced a pair of another length
C15_Witness ==
    /\ pc = "done"
    /\ \E i \in 1..Len(log) :
          /\ log[i].variable.t = "function"
          /\ log[i].args = << PaddedOld >>
          /\ log[i].details.value = ReverseSeq(PaddedOld)
    /\ \E i \in 1..Len(log) :
          /\ log[i].variable.t = "string"
          /\ log[i].outcome = "spliced"
          /\ log[i].old = Old
    /\ Len(result) # Len(original)

\* the exclude predicate of the call answers true for the entry's details
ExcludeTrue(e) == exclude.has /\ e.details.name \in exclude.names

\* the replacement computed for an entry: the empty string when the variable
\* is missing
ComputedValue(e) ==
    IF e.variable.t = "undefined" THEN << >>
    ELSE combine(e.fn, Resolved(e))

\* C16 (as stated): in the returned document the whole pair of every match
\* for which exclude answered true still stands as it was.  (Calls in which
\* a match runs past the first close tag of its name are left out.)
C16_Original ==
    (pc = "done" /\ round = 1 /\ \A i \in 1..Len(log) : FirstClose(log[i])) =>
        \A i \in 1..Len(log) :
            log[i].outcome = "excluded" =>
                Contains(result, log[i].details.fullMatch)

\* C16 (as amended): exclude is called once for every match the loop
\* handles (of each match when it has been resolved: the entry logged
\* last), with value equal to the computed replacement (empty when the
\* variable is missing); a match is passed over exactly when exclude answers
\* true, its pair then stands verbatim when its style pass ends, and a
\* missing-variable error is only ever raised for a match for which exclude
\* answered false.
C16_Exclude ==
    /\ log # << >> =>
          LET e == LastEntry
          IN  /\ e.called = exclude.has
              /\ e.details.value = ComputedValue(e)
              /\ (e.outcome = "excluded") = ExcludeTrue(e)
    /\ (pc = "threw" /\ error = "MissingVariable") =>
          ~ ExcludeTrue(LastEntry)
    /\ PassDone =>
          LET es == PassEntries(patIdx)
          IN  /\ Len(es) = Len(reversedMatches)
              /\ \A i \in 1..Len(es) :
                    LET e == es[i]
                        at == e.details.start + ShiftLeftOf(es, e.details.start)
                    IN  e.outcome = "excluded" =>
                            LitAt(transformed, at + 1, e.details.fullMatch)

\* C16 witness: with throwIfMissingVariable a pass skipped an excluded pair
\* whose variable is missing and substituted a pair left of it
C16_Witness ==
    /\ PassDone
    /\ throwIfMissingVariable
    /\ \E i, j \in 1..Len(log) :
          /\ log[i].pass = patIdx /\ log[j].pass = patIdx
          /\ log[i].outcome = "excluded"
          /\ log[i].variable.t = "undefined"
          /\ log[j].outcome = "spliced"
          /\ log[j].details.start < log[i].details.start
          /\ Len(log[j].details.value) # Len(log[j].old)

\* the name written in the close tag of an entry is the name of its open tag
SameName(e) ==
    /\ MatchOpen(e.style, e.open, 1).ok
    /\ MatchOpen(e.style, e.open, 1).name = e.details.name
    /\ LitAt(e.close, RunEnd(e.close, Len(OpenDelim(e.style)) + 1, Space),
             <<"{", "/">> \o e.details.name \o <<"}">>)

\* C17: every pair the loop handles (the entry logged last, when it has
\* been resolved) has a close tag of the open tag's name;
\* a document made of an open tag followed by a close tag of another name
\* is returned unchanged: no match is handled, so no variable is called,
\* and nothing is thrown although throwIfMissingVariable is set.
C17_MismatchNotPaired ==
    /\ log # << >> => SameName(LastEntry)
    /\ original \in MismatchDocs =>
          /\ pc # "threw"
          /\ log = << >>
          /\ pc = "done" => result = original

\* C17 witness: the call returned such a document as it was, with
\* throwIfMissingVariable set and the open tag's variable missing
C17_Witness ==
    /\ pc = "done"
    /\ round = 1
    /\ throwIfMissingVariable
    /\ original = XmlOpen(NameA, << >>) \o Old \o XmlClose(NameAB)
    /\ variables[NameA].t = "undefined"
    /\ result = original

\* C18: a pair whose tags are written with any of the gaps (no whitespace,
\* one blank, several blanks, line breaks) between the comment delimiters
\* and the braces, around a value of several lines, is substituted like
\* the single-blank form: the call returns the document with the value
\* replaced by the variable and both tags as they were written.
C18_WhitespaceTolerated ==
    original \in GapDocs =>
        \A style \in {"xml", "slash"}, g1 \in Gaps, g2 \in Gaps :
            original = GapDoc(style, g1, g2) =>
                /\ pc # "threw"
                /\ pc = "done" =>
                      result = <<"t", "\n">> \o GapOpen(style, NameA, g1, g2)
                                  \o PlainV \o GapClose(style, NameA, g2, g1)

\* C18 witness: a pair with a line break before the braces of its open tag
\* and several blanks after them was substituted
C18_Witness ==
    /\ pc = "done"
    /\ round = 1
    /\ original = GapDoc("xml", <<"\n">>, <<" ", " ", " ">>)
    /\ result = <<"t", "\n">>
                    \o GapOpen("xml", NameA, <<"\n">>, <<" ", " ", " ">>)
                    \o PlainV
                    \o GapClose("xml", NameA, <<" ", " ", " ">>, <<"\n">>)

\* d holds no marker pair of the style: no open tag of d is followed by a
\* close tag of its name
NoPair(style, d) ==
    \A i \in 1..Len(d) :
        MatchOpen(style, d, i).ok =>
            \A q \in (i + 1)..Len(d) :
                CloseEnd(style, d, q, MatchOpen(style, d, i).name) = 0

\* C19: a document with no marker pair of any requested style is returned
\* unchanged whatever the variables, throwIfMissingVariable and exclude
\* are: no match is handled (so no variable and no exclude is called) and
\* nothing is thrown.  It is read where a match has just been resolved and
\* where the call has ended.
C19_NoMarkersUnchanged ==
    (pc \in {"match", "threw", "done"}
        /\ \A k \in 1..Len(patterns) : NoPair(patterns[k], original)) =>
        /\ pc # "threw"
        /\ log = << >>
        /\ pc = "done" => result = original

\* C19 witness: text and a stray open tag were returned as they were, with
\* throwIfMissingVariable and exclude given
C19_Witness ==
    /\ pc = "done"
    /\ round = 1
    /\ original = <<"t">> \o XmlOpen(NameB, << >>)
    /\ throwIfMissingVariable
    /\ exclude.has
    /\ result = original

\* C20: when every variable is a string (or absent) and every pipe written
\* in the open tag being handled is registered, the call throws nothing
\* but a CommentTemplateError.
C20_OnlyCommentTemplateErrors ==
    (/\ pc = "threw"
     /\ PlainStrings
     /\ \A k \in 1..Len(WrittenPipes(pipeString, 1)) :
           WrittenPipes(pipeString, 1)[k].name \in PipeNames) =>
        IsCommentTemplateError(error)

\* the argument written between the quotes of a pipe expression that is one
\* replace pipe
WrittenReplaceArg(p) == SubSeq(p, Len(ReplacePrefix) + 1, Len(p) - 1)

\* is the pipe expression p one replace pipe with a quoted argument that
\* holds a comma
OneReplace(p) ==
    /\ Len(p) > Len(ReplacePrefix)
    /\ LitAt(p, 1, ReplacePrefix)
    /\ p[Len(p)] = "\""
    /\ IndexFrom(WrittenReplaceArg(p), "\"", 0) = -1
    /\ IndexFrom(WrittenReplaceArg(p), ",", 0) # -1

\* the value with every occurrence of the text before the first comma of
\* arg replaced by all the text behind that comma
ReplacedAtFirstComma(value, arg) ==
    LET k == IndexFrom(arg, ",", 0)
    IN  ReplaceAll(value, Slice(arg, 0, k), SliceFrom(arg, k + 1))

\* C21: the replace pipe splits its argument at the first comma only: with
\* the argument S,R every occurrence of S in the value is replaced by the
\* whole of R, commas included.
C21_FirstCommaOnly ==
    (log # << >> /\ original \in ReplaceDocs) =>
        LET e == LastEntry
        IN  (e.outcome = "spliced" /\ e.variable.t = "string"
                 /\ OneReplace(e.pipes)) =>
                e.details.value
                    = ReplacedAtFirstComma(e.variable.s,
                                           WrittenReplaceArg(e.pipes))

\* the offsets handed to exclude and used by the splice are in order and
\* inside the working document doc
OffsetsOrdered(d, doc) ==
    /\ 0 <= d.start
    /\ d.start <= d.replaceStart
    /\ d.replaceStart <= d.replaceEnd
    /\ d.replaceEnd <= d.end
    /\ d.end <= Len(doc)

\* C22: at every exclude call and every splice the offsets are ordered and
\* inside the working document, replaceStart and replaceEnd stand right
\* behind the open tag and right before the close tag, and the working
\* document still holds the full match at [start, end): the splices already
\* done in the pass, all to the right, moved nothing of it.
C22_OffsetInvariant ==
    log # << >> =>
        LET e == LastEntry
            d == e.details
        IN  /\ OffsetsOrdered(d, e.doc)
            /\ d.replaceStart = d.start + Len(e.open)
            /\ d.replaceEnd = d.end - Len(e.close)
            /\ Slice(e.doc, d.start, d.end) = d.fullMatch
            /\ Slice(e.doc, d.start, d.replaceStart) = e.open
            /\ Slice(e.doc, d.replaceEnd, d.end) = e.close

\* C22 witness: a match is spliced after a splice of the same pass, to its
\* right, has changed the length of the working document
C22_Witness ==
    /\ Len(log) >= 2
    /\ LastEntry.outcome = "spliced"
    /\ log[Len(log) - 1].outcome = "spliced"
    /\ log[Len(log) - 1].pass = LastEntry.pass
    /\ log[Len(log) - 1].details.start >= LastEntry.details.end
    /\ Len(LastEntry.doc) # Len(log[Len(log) - 1].doc)
    /\ LastEntry.details.start > 0

\* the entry handled just before the last one
PrevEntry == log[Len(log) - 1]

Handled(style) == \E i \in 1..Len(log) : log[i].style = style

\* C24: the two grammars accept the same names and pipe expressions: in a
\* document that holds a slash pair and an xml pair written with the same
\* name and the same pipe expression, the slash pair is matched if and only
\* if the xml pair is.
C24_SameGrammar ==
    (pc = "done" /\ round = 1 /\ original \in GrammarDocs) =>
        (Handled("slash") <=> Handled("xml"))

\* the pipe expression p names a pipe that is not registered
NamesUnregistered(p) ==
    \E k \in 1..Len(WrittenPipes(p, 1)) :
        WrittenPipes(p, 1)[k].name \notin PipeNames

\* C25: a matched marker whose pipe expression names an unregistered pipe
\* never reaches the decisions made per marker (exclude, the missing
\* variable, the splice): the call throws the invalid-pipe-name
\* CommentTemplateError and returns nothing.
C25_PipesFirst ==
    /\ pc = "resolve" => ~ NamesUnregistered(match.pipes)
    /\ log # << >> => ~ NamesUnregistered(LastEntry.pipes)
    /\ (pc = "threw" /\ NamesUnregistered(pipeString)) =>
           (error = "InvalidPipeName" /\ result = NoResult)

\* the variables entry of the marker of entry e is the empty string
EmptyVariable(e) ==
    /\ e.details.name \in DOMAIN variables
    /\ variables[e.details.name] = Str(<< >>)

\* C26: an empty-string variable counts as present: a handled marker
\* without pipes whose variable is the empty string, and which exclude does
\* not skip, is spliced - its open tag is then followed at once by its
\* close tag - and raises no missing-variable error, whatever
\* throwIfMissingVariable says; a marker is treated as missing only when
\* its entry is absent.
C26_EmptyStringPresent ==
    log # << >> =>
        LET e == LastEntry
        IN  /\ (EmptyVariable(e) /\ e.pipes = << >>
                    /\ e.outcome # "excluded") =>
                   /\ e.outcome = "spliced"
                   /\ e.details.value = << >>
                   /\ LitAt(transformed, e.details.start + 1,
                            e.open \o e.close)
                   /\ ~ (pc = "threw" /\ error = "MissingVariable")
            /\ e.outcome = "missing" =>
                   (e.details.name \in DOMAIN variables =>
                        variables[e.details.name] = Missing)

\* C26 witness: with throwIfMissingVariable set, a wrapped text that was
\* not empty has been replaced by the empty string
C26_Witness ==
    /\ log # << >>
    /\ throwIfMissingVariable
    /\ EmptyVariable(LastEntry)
    /\ LastEntry.outcome = "spliced"
    /\ LastEntry.old # << >>
    /\ LitAt(transformed, LastEntry.details.start + 1,
             LastEntry.open \o LastEntry.close)

\* C27: every entry of patterns is scanned once, on the working document
\* as the earlier passes left it: when a pass ends, the matches it handled
\* are the matches of its style in the document it began with, so a pair of
\* its style that an earlier pass wrote into the document is among them,
\* and a pair that a value substituted in this pass brought in is not; the
\* document is returned when the last entry of patterns has been scanned.
C27_ScannedOncePerStyle ==
    /\ PassDone =>
           LET es == PassEntries(patIdx)
           IN  /\ Len(es) = Len(reversedMatches)
               /\ \A i \in 1..Len(reversedMatches) :
                      /\ es[i].details.fullMatch = reversedMatches[i].full
                      /\ es[i].details.start = reversedMatches[i].index
               /\ reversedMatches = ReversedMatches(CurStyle, scanned)
    /\ (pc = "scan" /\ patIdx = 1) => transformed = content
    /\ pc = "done" => patIdx = Len(patterns) + 1

\* C27 witness: the xml pass has substituted a pair of b that the slash pass
\* had written into the document, and has left alone the pair of b that
\* its own substitution of a brought in
C27_Witness ==
    /\ PassDone
    /\ patIdx = 2
    /\ CurStyle = "xml"
    /\ Len(log) >= 3
    /\ LastEntry.pass = 2
    /\ LastEntry.outcome = "spliced"
    /\ LastEntry.details.name = NameB
    /\ ~ Contains(original, LastEntry.details.fullMatch)
    /\ PrevEntry.pass = 2
    /\ PrevEntry.outcome = "spliced"
    /\ PrevEntry.details.value = XmlPair(NameB, << >>, Old)
    /\ LitAt(transformed, Len(transformed) - Len(XmlClose(NameA))
                              - Len(XmlPair(NameB, << >>, Old)) + 1,
             XmlPair(NameB, << >>, Old))

====
